---- MODULE Spec2Model ----
(***************************************************************************)
(* Model of the tagged union generated by the UNION macro of               *)
(* tagged_union.hpp, instantiated as MyUnion of example.cpp:               *)
(*   UNION(MyUnion, (int, index), (int, value), (std::string, name),       *)
(*                  (struct { int x; int y; }, point))                     *)
(* A state holds the memory of two MyUnion variables.  Every member        *)
(* function is one action; the primitive placement-new / destroy_at steps  *)
(* it performs are recorded, in order, in last.log.                        *)
(***************************************************************************)
EXTENDS Integers, Sequences, FiniteSets, TLC

\* ------------------------------------------------------------------ bounds
\* int payloads and point coordinates range over 0..MaxInt
MaxInt == 1

\* --------------------------------------------------------------- universe
\* the variables of type MyUnion the program owns
Objs == {"a", "b"}

\* enum class tag_t { index, value, name, point }
Tags == {"index", "value", "name", "point"}

\* marker of memory whose m_tag was never written
NoTag == "none"

Ints == 0 .. MaxInt

\* std::string values ("" is the default-constructed / moved-from string)
Strings == {"", "hi"}

Points == [x : Ints, y : Ints]

\* alternative_t<tag>: the values of the payload type of an alternative
alternative_t(t) ==
    CASE t \in {"index", "value"} -> Ints
      [] t = "name" -> Strings
      [] t = "point" -> Points

\* argument lists a payload can be constructed from: () or a value
\* (int(n), std::string(s), point(x, y))
ArgsOf(t) ==
    CASE t \in {"index", "value"} -> {<<>>} \cup {<<n>> : n \in Ints}
      [] t = "name" -> {<<>>} \cup {<<s>> : s \in Strings}
      [] t = "point" -> {<<>>} \cup {<<p.x, p.y>> : p \in Points}

\* alternative_t<tag>(std::forward<Args>(args)...): direct construction of a
\* payload from an argument list; no arguments value-initialise
Construct(t, args) ==
    CASE t \in {"index", "value"} -> IF Len(args) = 0 THEN 0 ELSE args[1]
      [] t = "name" -> IF Len(args) = 0 THEN "" ELSE args[1]
      [] t = "point" -> IF Len(args) = 0 THEN [x |-> 0, y |-> 0]
                        ELSE [x |-> args[1], y |-> args[2]]

\* payload types with a trivial destructor (int, the aggregate of two ints)
Trivial(t) == t \in {"index", "value", "point"}

\* which constructions of a payload can throw: std::string allocates when it
\* is built from arguments or copied; its move constructor is noexcept
MayThrow(t, how) == t = "name" /\ how \in {"args", "copy"}

ThrowChoice(t, how) == IF MayThrow(t, how) THEN BOOLEAN ELSE {FALSE}

\* value a payload is left with after being moved from: scalars and the
\* aggregate are copied, a std::string is valid but unspecified
MovedFrom(t, v) == IF t = "name" THEN {v, ""} ELSE {v}

\* ------------------------------------------------------------ storage cell
\* one member of union storage_t: no payload constructed in it ...
Empty == [alive |-> FALSE]

\* ... or a payload constructed in it
Live(v) == [alive |-> TRUE, val |-> v, moved |-> FALSE]

\* memory of a variable before any constructor ran on it
Raw == [life |-> "absent", m_tag |-> NoTag, storage |-> [t \in Tags |-> Empty]]

\* one primitive step on the storage of object o
Ev(kind, o, f) == [ev |-> kind, obj |-> o, field |-> f]

\* new (std::addressof(this->m_storage.field)) alternative_t<field>(...)
PlacementNew(mem, f, v) == [mem EXCEPT !.storage[f] = Live(v)]

\* std::destroy_at(std::addressof(this->m_storage.field))
DestroyAt(mem, f) == [mem EXCEPT !.storage[f] = Empty]

VARIABLES objs, last, ub, crashed

vars == <<objs, last, ub, crashed>>

\* ------------------------------------------------- special member functions
\* value read through a reference to m_storage.f: the payload when one is
\* alive there, an indeterminate value of the type otherwise
ReadVals(mem, f) == IF mem.storage[f].alive THEN {mem.storage[f].val} ELSE alternative_t(f)

\* mutant of InPlaceCtor: the arguments are not forwarded to the payload
InPlaceCtorDropsArgs(o, mem, t, args, throws) ==
    LET tagged == [mem EXCEPT !.m_tag = t]
    IN  IF throws
        THEN [mem |-> tagged, threw |-> TRUE, log |-> <<Ev("throw", o, t)>>]
        ELSE [mem |-> PlacementNew(tagged, t, Construct(t, <<>>)), threw |-> FALSE,
              log |-> <<Ev("construct", o, t)>>]

\* mutant of InPlaceCtor: m_tag is only written on memory that has no tag yet
InPlaceCtorKeepsTag(o, mem, t, args, throws) ==
    LET tagged == IF mem.m_tag = NoTag THEN [mem EXCEPT !.m_tag = t] ELSE mem
    IN  IF throws
        THEN [mem |-> tagged, threw |-> TRUE, log |-> <<Ev("throw", o, t)>>]
        ELSE [mem |-> PlacementNew(tagged, t, Construct(t, args)), threw |-> FALSE,
              log |-> <<Ev("construct", o, t)>>]

\* mutant of InPlaceCtor: m_tag is written after the payload is constructed
InPlaceCtorTagsAfter(o, mem, t, args, throws) ==
    IF throws
    THEN [mem |-> mem, threw |-> TRUE, log |-> <<Ev("throw", o, t)>>]
    ELSE [mem |-> PlacementNew([mem EXCEPT !.m_tag = t], t, Construct(t, args)),
          threw |-> FALSE, log |-> <<Ev("construct", o, t)>>]

\* type_name(tu::in_place_tag_t<tag>, Args &&...args) : m_tag(tag) { ... }
\* run on memory mem of object o; throws: the payload constructor throws
InPlaceCtor(o, mem, t, args, throws) ==
    LET tagged == [mem EXCEPT !.m_tag = t]
    IN  IF throws
        THEN [mem |-> tagged, threw |-> TRUE, log |-> <<Ev("throw", o, t)>>]
        ELSE [mem |-> PlacementNew(tagged, t, Construct(t, args)), threw |-> FALSE,
              log |-> <<Ev("construct", o, t)>>]

\* mutant of CopyCtor: the copy case passes std::move(other).m_storage.field
CopyCtorMoves(o, mem, s, src, v, throws) ==
    LET f == src.m_tag
        tagged == [mem EXCEPT !.m_tag = f]
    IN  IF throws
        THEN [mem |-> tagged, src |-> src, threw |-> TRUE,
              log |-> <<Ev("read", s, f), Ev("throw", o, f)>>,
              ubh |-> ~src.storage[f].alive, bad |-> FALSE]
        ELSE [mem |-> PlacementNew(tagged, f, v),
              src |-> IF src.storage[f].alive
                      THEN [src EXCEPT !.storage[f].moved = TRUE]
                      ELSE src,
              threw |-> FALSE,
              log |-> <<Ev("move_from", s, f), Ev("construct", o, f)>>,
              ubh |-> ~src.storage[f].alive, bad |-> FALSE]

\* type_name(type_name const &other) : m_tag(other.m_tag) { switch (m_tag) ... }
\* v is the value read from the source's storage member
CopyCtor(o, mem, s, src, v, throws) ==
    LET f == src.m_tag
        tagged == [mem EXCEPT !.m_tag = f]
    IN  IF f \notin Tags
        THEN [mem |-> tagged, src |-> src, threw |-> FALSE, log |-> <<>>,
              ubh |-> FALSE, bad |-> TRUE]
        ELSE IF throws
        THEN [mem |-> tagged, src |-> src, threw |-> TRUE,
              log |-> <<Ev("read", s, f), Ev("throw", o, f)>>,
              ubh |-> ~src.storage[f].alive, bad |-> FALSE]
        ELSE [mem |-> PlacementNew(tagged, f, v), src |-> src, threw |-> FALSE,
              log |-> <<Ev("read", s, f), Ev("construct", o, f)>>,
              ubh |-> ~src.storage[f].alive, bad |-> FALSE]

\* mutant of MoveCtor: the source's payload is destroyed after the move
MoveCtorDestroysSource(o, mem, s, src, v, r) ==
    LET f == src.m_tag
        tagged == [mem EXCEPT !.m_tag = f]
    IN  [mem |-> PlacementNew(tagged, f, v),
         src |-> DestroyAt(src, f),
         threw |-> FALSE,
         log |-> <<Ev("move_from", s, f), Ev("construct", o, f), Ev("destroy", s, f)>>,
         ubh |-> ~src.storage[f].alive, bad |-> FALSE]

\* mutant of MoveCtor: the source is marked as holding nothing after the move
MoveCtorInvalidatesSource(o, mem, s, src, v, r) ==
    LET f == src.m_tag
        tagged == [mem EXCEPT !.m_tag = f]
    IN  IF f \notin Tags
        THEN [mem |-> tagged, src |-> src, threw |-> FALSE, log |-> <<>>,
              ubh |-> FALSE, bad |-> TRUE]
        ELSE [mem |-> PlacementNew(tagged, f, v),
              src |-> [DestroyAt(src, f) EXCEPT !.m_tag = NoTag],
              threw |-> FALSE,
              log |-> <<Ev("move_from", s, f), Ev("construct", o, f), Ev("destroy", s, f)>>,
              ubh |-> ~src.storage[f].alive, bad |-> FALSE]

\* type_name(type_name &&other) : m_tag(other.m_tag) { switch (m_tag) ... }
\* v is the value read from the source, r the value the source is left with
MoveCtor(o, mem, s, src, v, r) ==
    LET f == src.m_tag
        tagged == [mem EXCEPT !.m_tag = f]
    IN  IF f \notin Tags
        THEN [mem |-> tagged, src |-> src, threw |-> FALSE, log |-> <<>>,
              ubh |-> FALSE, bad |-> TRUE]
        ELSE [mem |-> PlacementNew(tagged, f, v),
              src |-> IF src.storage[f].alive
                      THEN [src EXCEPT !.storage[f] = [alive |-> TRUE, val |-> r, moved |-> TRUE]]
                      ELSE src,
              threw |-> FALSE,
              log |-> <<Ev("move_from", s, f), Ev("construct", o, f)>>,
              ubh |-> ~src.storage[f].alive, bad |-> FALSE]

\* mutant of Dtor: the switch has no case for name
DtorMissingCase(o, mem) ==
    LET f == mem.m_tag
    IN  IF f \notin Tags \ {"name"}
        THEN [mem |-> mem, log |-> <<>>, ubh |-> FALSE, bad |-> TRUE]
        ELSE [mem |-> DestroyAt(mem, f), log |-> <<Ev("destroy", o, f)>>,
              ubh |-> FALSE, bad |-> FALSE]

\* mutant of Dtor: the destructor body is empty, like ~storage_t() {}
DtorNoop(o, mem) == [mem |-> mem, log |-> <<>>, ubh |-> FALSE, bad |-> FALSE]

\* mutant of Dtor: the cases of the switch have no break, so the case of the
\* tag falls through the cases declared after it
DtorFallsThrough(o, mem) ==
    LET f == mem.m_tag
        order == <<"index", "value", "name", "point">>
        from == CHOOSE i \in 1..4 : order[i] = f
    IN  IF f \notin Tags
        THEN [mem |-> mem, log |-> <<>>, ubh |-> FALSE, bad |-> TRUE]
        ELSE [mem |-> [mem EXCEPT !.storage = [t \in Tags |-> Empty]],
              log |-> [i \in 1..(5 - from) |-> Ev("destroy", o, order[from + i - 1])],
              ubh |-> from < 4, bad |-> FALSE]

\* ~type_name() { switch (m_tag) { case f: std::destroy_at(&m_storage.f) ... } }
Dtor(o, mem) ==
    LET f == mem.m_tag
    IN  IF f \notin Tags
        THEN [mem |-> mem, log |-> <<>>, ubh |-> FALSE, bad |-> TRUE]
        ELSE [mem |-> DestroyAt(mem, f), log |-> <<Ev("destroy", o, f)>>,
              ubh |-> ~mem.storage[f].alive /\ ~Trivial(f), bad |-> FALSE]

\* ------------------------------------------------------------ inspection
\* tag_t get_tag() const { return m_tag; }
get_tag(mem) == mem.m_tag

\* mutant of holds: the answer is taken from the storage, not from m_tag
holds_by_storage(mem, t) == mem.storage[t].alive

\* mutant of holds: the answer is by payload type, as for a variant indexed by
\* type
holds_by_type(mem, t) == mem.m_tag \in Tags /\ alternative_t(mem.m_tag) = alternative_t(t)

\* bool holds<tag>() const { return m_tag == tag; }
holds(mem, t) == mem.m_tag = t

\* the null pointer
Null == [obj |-> "null", field |-> "null"]

\* &this->m_storage.field of object o
Ref(o, f) == [obj |-> o, field |-> f]

\* mutant of get_ptr: the test of m_tag is missing
get_ptr_unchecked(o, mem, t) == Ref(o, t)

\* get_ptr<tag>(): return m_tag == tag ? &this->m_storage.field : nullptr;
get_ptr(o, mem, t) == IF mem.m_tag = t THEN Ref(o, t) ELSE Null

\* get_ref<tag>(): return (*this).m_storage.field;   (unchecked)
get_ref(o, mem, t) == Ref(o, t)

\* set of alternatives with a payload constructed in the storage of mem
AliveSet(mem) == {t \in Tags : mem.storage[t].alive}

\* ---------------------------------------------------------------- dispatch
\* a visitor, by the call shapes it accepts: specific is the set of tags t for
\* which visitor(tu::in_place_tag<t>, payload) is well-formed, whole tells
\* whether visitor(*this) is well-formed
\* The specific sets are those of the MATCH expressions of example.cpp (cases
\* for name and index; for all four; for index and value), a single case, and
\* none.
Visitors ==
    [specific : {{}, {"index"}, {"name", "index"}, {"index", "value"}, Tags},
     whole : BOOLEAN]

\* the four ref-qualified overloads of visit: & and const & expand
\* UNION_VISIT_LVALUE_REF_CASE, && and const && UNION_VISIT_RVALUE_REF_CASE
Categories == {"lvalue", "rvalue"}

ReturnTypes == {"void", "nonvoid"}

\* reference to the whole object o
Whole(o) == [obj |-> o, field |-> "*this"]

NoCall == [form |-> "none", tag |-> NoTag, arg |-> Null, cat |-> "none"]

\* a visitor, when neither call shape applies
NoVisitor == [specific |-> {}, whole |-> FALSE]

\* mutant of VisitCase: the whole-value form is probed first
VisitCaseWholeFirst(o, f, h, cat) ==
    IF h.whole
    THEN [form |-> "whole", tag |-> NoTag, arg |-> Whole(o), cat |-> cat]
    ELSE IF f \in h.specific
    THEN [form |-> "specific", tag |-> f, arg |-> Ref(o, f), cat |-> cat]
    ELSE NoCall

\* mutant of VisitCase: one choice for the whole type; the whole-value form is
\* only used by a visitor that has no tag-specific form at all
VisitCaseGlobalChoice(o, f, h, cat) ==
    IF f \in h.specific
    THEN [form |-> "specific", tag |-> f, arg |-> Ref(o, f), cat |-> cat]
    ELSE IF h.whole /\ h.specific = {}
    THEN [form |-> "whole", tag |-> NoTag, arg |-> Whole(o), cat |-> cat]
    ELSE NoCall

\* mutant of VisitCase: a case without a tag-specific form falls through to
\* the whole-value form even when the visitor only has other cases
VisitCaseDefaultsToOther(o, f, h, cat) ==
    IF f \in h.specific
    THEN [form |-> "specific", tag |-> f, arg |-> Ref(o, f), cat |-> cat]
    ELSE IF h.whole
    THEN [form |-> "whole", tag |-> NoTag, arg |-> Whole(o), cat |-> cat]
    ELSE IF h.specific # {}
    THEN [form |-> "specific", tag |-> CHOOSE g \in h.specific : TRUE,
          arg |-> Ref(o, f), cat |-> cat]
    ELSE NoCall

\* mutant of VisitCase: the whole-value form is given the active payload, as
\* an lvalue
VisitCaseDefaultGetsPayload(o, f, h, cat) ==
    IF f \in h.specific
    THEN [form |-> "specific", tag |-> f, arg |-> Ref(o, f), cat |-> cat]
    ELSE IF h.whole
    THEN [form |-> "whole", tag |-> NoTag, arg |-> Ref(o, f), cat |-> "lvalue"]
    ELSE NoCall

\* mutant of VisitCase: the && overloads expand the lvalue case, without
\* std::move
VisitCaseRvalueAsLvalue(o, f, h, cat) ==
    IF f \in h.specific
    THEN [form |-> "specific", tag |-> f, arg |-> Ref(o, f), cat |-> "lvalue"]
    ELSE IF h.whole
    THEN [form |-> "whole", tag |-> NoTag, arg |-> Whole(o), cat |-> "lvalue"]
    ELSE NoCall

\* the body of one case of the switch in visit, for the alternative f
VisitCase(o, f, h, cat) ==
    IF f \in h.specific
    THEN [form |-> "specific", tag |-> f, arg |-> Ref(o, f), cat |-> cat]
    ELSE IF h.whole
    THEN [form |-> "whole", tag |-> NoTag, arg |-> Whole(o), cat |-> cat]
    ELSE NoCall

\* mutant of VisitCompiles: the trailing "return;" is accepted for any type
VisitCompilesAlways(h, rt) == TRUE

\* visit<ReturnType>(visitor) compiles: every case of the switch is
\* instantiated, and its last branch is "return;"
VisitCompiles(h, rt) == rt # "void" => \A f \in Tags : f \notin h.specific => h.whole

\* a matcher, by the member functions it offers: cases is the set of names t
\* for which matcher.case_t(payload) is well-formed, otherwise tells whether
\* matcher.otherwise(*this) is well-formed.  The Matcher of the README offers
\* case_name, case_index and otherwise.
Matchers == [cases : {{}, {"index"}, {"name", "index"}, Tags}, otherwise : BOOLEAN]

NoMatcher == [cases |-> {}, otherwise |-> FALSE]

\* mutant of MatchCase: otherwise is tried before case_f
MatchCaseOtherwiseFirst(o, f, m, cat) ==
    IF m.otherwise
    THEN [form |-> "otherwise", tag |-> NoTag, arg |-> Whole(o), cat |-> cat]
    ELSE IF f \in m.cases
    THEN [form |-> "case", tag |-> f, arg |-> Ref(o, f), cat |-> cat]
    ELSE NoCall

\* the body of one case of the switch in match, for the alternative f
MatchCase(o, f, m, cat) ==
    IF f \in m.cases
    THEN [form |-> "case", tag |-> f, arg |-> Ref(o, f), cat |-> cat]
    ELSE IF m.otherwise
    THEN [form |-> "otherwise", tag |-> NoTag, arg |-> Whole(o), cat |-> cat]
    ELSE NoCall

\* mutant of MatchCompiles: the trailing "return;" is accepted for any type
MatchCompilesAlways(m, rt) == TRUE

\* match<ReturnType>(matcher) compiles: every case of the switch is
\* instantiated, and its last branch is "return;"
MatchCompiles(m, rt) == rt # "void" => \A f \in Tags : f \notin m.cases => m.otherwise

\* what the body of the visitor does with the argument it is called with:
\* read it; move from it (an rvalue); or, given the whole union as an lvalue,
\* re-tag it with emplace<tag>()
Effects ==
    {[kind |-> "read", tag |-> NoTag], [kind |-> "take", tag |-> NoTag]}
       \cup {[kind |-> "retag", tag |-> t] : t \in Tags}

NoEffect == [kind |-> "read", tag |-> NoTag]

\* the calls in which a body can have the effect e
EffectApplies(e, call, cat) ==
    CASE e.kind = "read" -> TRUE
      [] e.kind = "take" -> cat = "rvalue" /\ call.form # "none"
      [] e.kind = "retag" -> cat = "lvalue" /\ call.form = "whole"

\* values the active payload of mem can be left with by a move
LeftVals(mem) ==
    IF mem.m_tag \in Tags
    THEN UNION {MovedFrom(mem.m_tag, v) : v \in ReadVals(mem, mem.m_tag)}
    ELSE {0}

\* the visitor's body runs on the argument of call; r is the value a payload
\* that is moved from is left with
HandlerEffect(o, mem, call, e, r) ==
    LET f == mem.m_tag
    IN  IF call.form = "none"
        THEN [mem |-> mem, log |-> <<>>, ubh |-> FALSE]
        ELSE CASE e.kind = "read" ->
                    IF call.form = "specific"
                    THEN [mem |-> mem, log |-> <<Ev("read", o, f)>>,
                          ubh |-> ~mem.storage[f].alive]
                    ELSE [mem |-> mem, log |-> <<>>, ubh |-> FALSE]
               [] e.kind = "take" ->
                    [mem |-> IF mem.storage[f].alive
                             THEN [mem EXCEPT !.storage[f] =
                                      [alive |-> TRUE, val |-> r, moved |-> TRUE]]
                             ELSE mem,
                     log |-> <<Ev("move_from", o, f)>>,
                     ubh |-> ~mem.storage[f].alive]
               [] e.kind = "retag" ->
                    LET d == Dtor(o, mem)
                        c == InPlaceCtor(o, d.mem, e.tag, <<>>, FALSE)
                    IN  [mem |-> [c.mem EXCEPT !.life = "alive"],
                         log |-> d.log \o c.log, ubh |-> d.ubh]

\* --------------------------------------------------------- pattern matching
\* CASE(field_name, var_name, block):
\*   [&](tu::in_place_tag_t<tag_t::field_name>, auto &&var_name) block
Case(f, b) == [kind |-> "CASE", field |-> f, body |-> b]

\* OTHERWISE(var_name, block):   [&](auto &&var_name) block
Otherwise(b) == [kind |-> "OTHERWISE", field |-> NoTag, body |-> b]

\* the lambdas of a combined visitor that are viable for the call
\* visitor(tu::in_place_tag<f>, payload): the two-parameter ones whose first
\* parameter is in_place_tag_t<f>
Candidates(branches, f) ==
    {i \in DOMAIN branches : branches[i].kind = "CASE" /\ branches[i].field = f}

\* the lambdas viable for the call visitor(*this): the one-parameter ones
Defaults(branches) == {i \in DOMAIN branches : branches[i].kind = "OTHERWISE"}

\* mutant of combined_visitor: of two lambdas for the same call the first
\* hides the second
combined_visitor_first_wins(branches) ==
    [specific |-> {f \in Tags : Candidates(branches, f) # {}},
     whole |-> Defaults(branches) # {}]

\* tu::combined_visitor{lambdas...}: struct combined_visitor : Visitors...
\* { using Visitors::operator()...; }.  A call is well-formed when overload
\* resolution finds one best operator(); two lambdas with the same parameter
\* list make it ambiguous
combined_visitor(branches) ==
    [specific |-> {f \in Tags : Cardinality(Candidates(branches, f)) = 1},
     whole |-> Cardinality(Defaults(branches)) = 1]

\* mutant of Selected: the OTHERWISE lambda is preferred whenever there is one
SelectedDefaultFirst(branches, call) ==
    IF call.form = "none" THEN 0
    ELSE IF Defaults(branches) # {} THEN CHOOSE i \in Defaults(branches) : TRUE
    ELSE CHOOSE i \in Candidates(branches, call.tag) : TRUE

\* mutant of Selected: only the first lambda's operator() is inherited
SelectedFirstOnly(branches, call) == IF call.form = "none" THEN 0 ELSE 1

\* the lambda overload resolution selects for a call (0: no call)
Selected(branches, call) ==
    CASE call.form = "specific" -> CHOOSE i \in Candidates(branches, call.tag) : TRUE
      [] call.form = "whole" -> CHOOSE i \in Defaults(branches) : TRUE
      [] OTHER -> 0

\* the blocks of the MATCH expressions, by what they return for the value v
\* bound to var_name: nothing (a void block that prints), the payload, the
\* size of a string, the sum of a point's coordinates, a text formatted with
\* the payload, or a fixed text
RunBody(b, v) ==
    CASE b = "print" -> <<>>
      [] b = "payload" -> <<v>>
      [] b = "size" -> <<Len(v)>>
      [] b = "sum" -> <<v.x + v.y>>
      [] b = "format_index" -> <<"Index: ", v>>
      [] b = "format_value" -> <<"Value: ", v>>
      [] OTHER -> <<b>>

\* MATCH(return_type, value, branches...): the three expressions of main, and
\* two in which two CASE branches name the same alternative
MatchExprs ==
    { [rt |-> "void",
       branches |-> <<Case("name", "print"), Case("index", "print")>>],
      [rt |-> "int",
       branches |-> <<Case("index", "payload"), Case("value", "payload"),
                      Case("name", "size"), Case("point", "sum")>>],
      [rt |-> "string",
       branches |-> <<Case("index", "format_index"), Case("value", "format_value"),
                      Otherwise("Unsupported variant")>>],
      [rt |-> "string",
       branches |-> <<Case("index", "first"), Case("index", "second"),
                      Otherwise("otherwise")>>],
      [rt |-> "void",
       branches |-> <<Case("index", "print"), Case("index", "print"),
                      Case("value", "print")>>] }

\* ------------------------------------------------------------------ state
NoLast ==
    [op |-> "init", dst |-> "none", src |-> "none", tag |-> NoTag, args |-> <<>>,
     threw |-> FALSE, log |-> <<>>, ret |-> Null, called |-> NoCall, bad |-> FALSE,
     visitor |-> NoVisitor, matcher |-> NoMatcher, rt |-> "none", effect |-> NoEffect,
     branches |-> <<>>, branch |-> 0, result |-> <<>>, cat |-> "none",
     undefined |-> FALSE,
     pre |-> [o \in Objs |-> Raw]]

Init ==
    /\ objs = [o \in Objs |-> Raw]
    /\ last = NoLast
    /\ ub = FALSE
    /\ crashed = FALSE

Exists(o) == objs[o].life # "absent"

\* the variables in scope
Existing == {o \in Objs : Exists(o)}

\* an operation ends: it returns or throws leaving newObjs, or, when it ran
\* into undefined behaviour (h), the process may also die inside it
Commit(newObjs, newLast, h) ==
    \/ /\ objs' = newObjs
       /\ last' = [newLast EXCEPT !.pre = objs, !.undefined = h]
       /\ ub' = (ub \/ h)
       /\ crashed' = FALSE
    \/ /\ h
       /\ crashed' = TRUE
       /\ ub' = TRUE
       /\ UNCHANGED <<objs, last>>

\* the life of an object whose constructor returned or threw
Constructed(mem, threw, failed) == [mem EXCEPT !.life = IF threw THEN failed ELSE "alive"]

\* MyUnion o = MyUnion::create<t>(args...);   (create_<name> forwards to it)
Create(o, t, args, throws) ==
    /\ ~crashed /\ ~Exists(o)
    /\ LET c == InPlaceCtor(o, Raw, t, args, throws)
       IN  Commit([objs EXCEPT ![o] = IF c.threw THEN Raw ELSE Constructed(c.mem, FALSE, "absent")],
                  [NoLast EXCEPT !.op = "create", !.dst = o, !.tag = t, !.args = args,
                                 !.threw = c.threw, !.log = c.log],
                  FALSE)

\* MyUnion o(s);
CopyConstruct(o, s, v, throws) ==
    /\ ~crashed /\ ~Exists(o) /\ Exists(s)
    /\ LET c == CopyCtor(o, Raw, s, objs[s], v, throws)
       IN  Commit([objs EXCEPT ![s] = c.src,
                               ![o] = IF c.threw THEN Raw ELSE Constructed(c.mem, FALSE, "absent")],
                  [NoLast EXCEPT !.op = "copy_construct", !.dst = o, !.src = s,
                                 !.threw = c.threw, !.log = c.log, !.bad = c.bad],
                  c.ubh)

\* MyUnion o(std::move(s));
MoveConstruct(o, s, v, r) ==
    /\ ~crashed /\ ~Exists(o) /\ Exists(s)
    /\ LET c == MoveCtor(o, Raw, s, objs[s], v, r)
       IN  Commit([objs EXCEPT ![s] = c.src, ![o] = Constructed(c.mem, FALSE, "absent")],
                  [NoLast EXCEPT !.op = "move_construct", !.dst = o, !.src = s,
                                 !.log = c.log, !.bad = c.bad],
                  c.ubh)

\* mutant of CopyAssign: the test this != &other is missing
CopyAssignNoSelfCheck(o, s, v, throws) ==
    /\ ~crashed /\ Exists(o) /\ Exists(s)
    /\ LET d == Dtor(o, objs[o])
           c == CopyCtor(o, d.mem, s, IF o = s THEN d.mem ELSE objs[s], v, throws)
       IN  Commit([objs EXCEPT ![s] = c.src, ![o] = Constructed(c.mem, c.threw, "poisoned")],
                  [NoLast EXCEPT !.op = "copy_assign", !.dst = o, !.src = s,
                                 !.threw = c.threw, !.log = d.log \o c.log,
                                 !.bad = d.bad \/ c.bad],
                  d.ubh \/ c.ubh)

\* o = s;        type_name &operator=(type_name const &other)
CopyAssign(o, s, v, throws) ==
    /\ ~crashed /\ Exists(o) /\ Exists(s)
    /\ IF o # s
       THEN LET d == Dtor(o, objs[o])
                c == CopyCtor(o, d.mem, s, objs[s], v, throws)
            IN  Commit([objs EXCEPT ![s] = c.src, ![o] = Constructed(c.mem, c.threw, "poisoned")],
                       [NoLast EXCEPT !.op = "copy_assign", !.dst = o, !.src = s,
                                      !.threw = c.threw, !.log = d.log \o c.log,
                                      !.bad = d.bad \/ c.bad],
                       d.ubh \/ c.ubh)
       ELSE Commit(objs, [NoLast EXCEPT !.op = "copy_assign", !.dst = o, !.src = s], FALSE)

\* mutant of MoveAssign: the target is constructed anew without being
\* destroyed first
MoveAssignWithoutDestroy(o, s, v, r) ==
    /\ ~crashed /\ Exists(o) /\ Exists(s)
    /\ IF o # s
       THEN LET c == MoveCtor(o, objs[o], s, objs[s], v, r)
            IN  Commit([objs EXCEPT ![s] = c.src, ![o] = Constructed(c.mem, FALSE, "poisoned")],
                       [NoLast EXCEPT !.op = "move_assign", !.dst = o, !.src = s,
                                      !.log = c.log, !.bad = c.bad],
                       c.ubh)
       ELSE Commit(objs, [NoLast EXCEPT !.op = "move_assign", !.dst = o, !.src = s], FALSE)

\* o = std::move(s);        type_name &operator=(type_name &&other)
MoveAssign(o, s, v, r) ==
    /\ ~crashed /\ Exists(o) /\ Exists(s)
    /\ IF o # s
       THEN LET d == Dtor(o, objs[o])
                c == MoveCtor(o, d.mem, s, objs[s], v, r)
            IN  Commit([objs EXCEPT ![s] = c.src, ![o] = Constructed(c.mem, FALSE, "poisoned")],
                       [NoLast EXCEPT !.op = "move_assign", !.dst = o, !.src = s,
                                      !.log = d.log \o c.log, !.bad = d.bad \/ c.bad],
                       d.ubh \/ c.ubh)
       ELSE Commit(objs, [NoLast EXCEPT !.op = "move_assign", !.dst = o, !.src = s], FALSE)

\* mutant of Emplace: the new payload is constructed over the old one, which
\* is not destroyed first
EmplaceWithoutDestroy(o, t, args, throws) ==
    /\ ~crashed /\ Exists(o)
    /\ LET c == InPlaceCtor(o, objs[o], t, args, throws)
       IN  Commit([objs EXCEPT ![o] = Constructed(c.mem, c.threw, "poisoned")],
                  [NoLast EXCEPT !.op = "emplace", !.dst = o, !.tag = t, !.args = args,
                                 !.threw = c.threw, !.log = c.log,
                                 !.ret = IF c.threw THEN Null ELSE get_ref(o, c.mem, t)],
                  FALSE)

\* o.emplace<t>(args...);   (emplace_<name> forwards to it)
Emplace(o, t, args, throws) ==
    /\ ~crashed /\ Exists(o)
    /\ LET d == Dtor(o, objs[o])
           c == InPlaceCtor(o, d.mem, t, args, throws)
       IN  Commit([objs EXCEPT ![o] = Constructed(c.mem, c.threw, "poisoned")],
                  [NoLast EXCEPT !.op = "emplace", !.dst = o, !.tag = t, !.args = args,
                                 !.threw = c.threw, !.log = d.log \o c.log, !.bad = d.bad,
                                 !.ret = IF c.threw THEN Null ELSE get_ref(o, c.mem, t)],
                  d.ubh)

\* o goes out of scope:  ~type_name()
Destroy(o) ==
    /\ ~crashed /\ Exists(o)
    /\ LET d == Dtor(o, objs[o])
       IN  Commit([objs EXCEPT ![o] = Raw],
                  [NoLast EXCEPT !.op = "destroy", !.dst = o, !.log = d.log, !.bad = d.bad],
                  d.ubh)

\* mutant of Visit: the payload that was active before the call is read again
\* after the visitor returns
VisitReadsAfterHandler(o, h, cat, rt, e, r) ==
    /\ ~crashed /\ Exists(o)
    /\ VisitCompiles(h, rt)
    /\ LET f == objs[o].m_tag
           call == IF f \in Tags THEN VisitCase(o, f, h, cat) ELSE NoCall
       IN  /\ EffectApplies(e, call, cat)
           /\ LET x == HandlerEffect(o, objs[o], call, e, r)
              IN  Commit([objs EXCEPT ![o] = x.mem],
                         [NoLast EXCEPT !.op = "visit", !.dst = o, !.visitor = h, !.rt = rt,
                                        !.cat = cat, !.called = call, !.effect = e,
                                        !.log = x.log \o <<Ev("read", o, f)>>,
                                        !.bad = f \notin Tags],
                         x.ubh \/ ~x.mem.storage[f].alive)

\* o.visit<ReturnType>(visitor)  /  std::move(o).visit<ReturnType>(visitor)
\* the case of the active tag calls the visitor once, or not at all, and
\* returns; e is what the visitor's body does, r the value a moved-from
\* payload is left with
Visit(o, h, cat, rt, e, r) ==
    /\ ~crashed /\ Exists(o)
    /\ VisitCompiles(h, rt)
    /\ LET f == objs[o].m_tag
           call == IF f \in Tags THEN VisitCase(o, f, h, cat) ELSE NoCall
       IN  /\ EffectApplies(e, call, cat)
           /\ LET x == HandlerEffect(o, objs[o], call, e, r)
              IN  Commit([objs EXCEPT ![o] = x.mem],
                         [NoLast EXCEPT !.op = "visit", !.dst = o, !.visitor = h, !.rt = rt,
                                        !.cat = cat,
                                        !.called = call, !.effect = e, !.log = x.log,
                                        !.bad = f \notin Tags],
                         x.ubh)

\* MATCH(return_type, o, branches...)  /  MATCH(return_type, std::move(o), ...):
\*   (value).visit<return_type>(tu::combined_visitor{lambdas...})
\* v is the value the selected block reads through its binding
MATCH(o, m, cat, v) ==
    /\ ~crashed /\ Exists(o)
    /\ VisitCompiles(combined_visitor(m.branches), m.rt)
    /\ LET f == objs[o].m_tag
           h == combined_visitor(m.branches)
           call == IF f \in Tags THEN VisitCase(o, f, h, cat) ELSE NoCall
           i == Selected(m.branches, call)
       IN  Commit(objs,
                  [NoLast EXCEPT !.op = "MATCH", !.dst = o, !.visitor = h, !.rt = m.rt,
                                 !.cat = cat, !.called = call,
                                 !.branches = m.branches, !.branch = i,
                                 !.result = IF i = 0 THEN <<>>
                                            ELSE RunBody(m.branches[i].body, v),
                                 !.log = IF call.form = "specific"
                                         THEN <<Ev("read", o, f)>> ELSE <<>>,
                                 !.bad = f \notin Tags],
                  call.form = "specific" /\ ~objs[o].storage[f].alive)

\* o.match<rt>(matcher)  /  std::move(o).match<rt>(matcher): the switch on
\* m_tag runs the case of the active alternative
Match(o, m, cat, rt) ==
    /\ ~crashed /\ Exists(o)
    /\ MatchCompiles(m, rt)
    /\ LET f == objs[o].m_tag
           call == IF f \in Tags THEN MatchCase(o, f, m, cat) ELSE NoCall
       IN  Commit(objs,
                  [NoLast EXCEPT !.op = "match", !.dst = o, !.matcher = m, !.rt = rt,
                                 !.cat = cat, !.called = call,
                                 !.log = IF call.form = "case"
                                         THEN <<Ev("read", o, f)>> ELSE <<>>,
                                 !.bad = f \notin Tags],
                  call.form = "case" /\ ~objs[o].storage[f].alive)

\* o.get_tag()
GetTag(o) ==
    /\ ~crashed /\ Exists(o)
    /\ Commit(objs, [NoLast EXCEPT !.op = "get_tag", !.dst = o,
                                   !.result = <<get_tag(objs[o])>>], FALSE)

\* o.holds<t>()   (holds_<name>() forwards to it)
Holds(o, t) ==
    /\ ~crashed /\ Exists(o)
    /\ Commit(objs, [NoLast EXCEPT !.op = "holds", !.dst = o, !.tag = t,
                                   !.result = <<holds(objs[o], t)>>], FALSE)

\* mutant of GetPtr: asking for an alternative makes it the active one
GetPtrActivates(o, t) ==
    /\ ~crashed /\ Exists(o)
    /\ Commit([objs EXCEPT ![o].m_tag = t],
              [NoLast EXCEPT !.op = "get_ptr", !.dst = o, !.tag = t,
                             !.ret = Ref(o, t)], FALSE)

\* o.get_ptr<t>()   (get_<name>_ptr() forwards to it)
GetPtr(o, t) ==
    /\ ~crashed /\ Exists(o)
    /\ Commit(objs, [NoLast EXCEPT !.op = "get_ptr", !.dst = o, !.tag = t,
                                   !.ret = get_ptr(o, objs[o], t)], FALSE)

Next ==
    \/ \E o \in Objs, t \in Tags : \E args \in ArgsOf(t), th \in ThrowChoice(t, "args") :
          Create(o, t, args, th)
    \/ \E o \in Objs, s \in Existing :
          \E v \in ReadVals(objs[s], objs[s].m_tag), th \in ThrowChoice(objs[s].m_tag, "copy") :
             CopyConstruct(o, s, v, th)
    \/ \E o \in Objs, s \in Existing :
          \E v \in ReadVals(objs[s], objs[s].m_tag) : \E r \in MovedFrom(objs[s].m_tag, v) :
             MoveConstruct(o, s, v, r)
    \/ \E o \in Objs, s \in Existing :
          \E v \in ReadVals(objs[s], objs[s].m_tag), th \in ThrowChoice(objs[s].m_tag, "copy") :
             CopyAssign(o, s, v, th)
    \/ \E o \in Objs, s \in Existing :
          \E v \in ReadVals(objs[s], objs[s].m_tag) : \E r \in MovedFrom(objs[s].m_tag, v) :
             MoveAssign(o, s, v, r)
    \/ \E o \in Objs, t \in Tags : \E args \in ArgsOf(t), th \in ThrowChoice(t, "args") :
          Emplace(o, t, args, th)
    \/ \E o \in Objs : Destroy(o)

\* construction, copy, move, assignment, emplace and destruction of two unions
Spec == Init /\ [][Next]_vars

\* the union the dispatch specification applies visitors to
Visited == {"a"}

NextVisit ==
    \/ \E o \in Visited, t \in Tags : \E args \in ArgsOf(t), th \in ThrowChoice(t, "args") :
          Create(o, t, args, th)
    \/ \E o \in Visited, t \in Tags : \E args \in ArgsOf(t), th \in ThrowChoice(t, "args") :
          Emplace(o, t, args, th)
    \/ \E o \in Visited : Destroy(o)
    \/ \E o \in Visited \cap Existing, h \in Visitors, cat \in Categories, rt \in ReturnTypes :
          \E e \in Effects, r \in LeftVals(objs[o]) : Visit(o, h, cat, rt, e, r)
    \/ \E o \in Visited \cap Existing, m \in MatchExprs, cat \in Categories :
          \E v \in ReadVals(objs[o], objs[o].m_tag) : MATCH(o, m, cat, v)
    \/ \E o \in Visited \cap Existing, m \in Matchers, cat \in Categories, rt \in ReturnTypes :
          Match(o, m, cat, rt)
    \/ \E o \in Visited \cap Existing : GetTag(o)
    \/ \E o \in Visited \cap Existing, t \in Tags : Holds(o, t)
    \/ \E o \in Visited \cap Existing, t \in Tags : GetPtr(o, t)

\* one union that is built, rebuilt in place, visited and destroyed
SpecVisit == Init /\ [][NextVisit]_vars

\* the same operations when no payload constructor throws
NextNoThrow ==
    \/ \E o \in Objs, t \in Tags : \E args \in ArgsOf(t) : Create(o, t, args, FALSE)
    \/ \E o \in Objs, s \in Existing :
          \E v \in ReadVals(objs[s], objs[s].m_tag) : CopyConstruct(o, s, v, FALSE)
    \/ \E o \in Objs, s \in Existing :
          \E v \in ReadVals(objs[s], objs[s].m_tag) : \E r \in MovedFrom(objs[s].m_tag, v) :
             MoveConstruct(o, s, v, r)
    \/ \E o \in Objs, s \in Existing :
          \E v \in ReadVals(objs[s], objs[s].m_tag) : CopyAssign(o, s, v, FALSE)
    \/ \E o \in Objs, s \in Existing :
          \E v \in ReadVals(objs[s], objs[s].m_tag) : \E r \in MovedFrom(objs[s].m_tag, v) :
             MoveAssign(o, s, v, r)
    \/ \E o \in Objs, t \in Tags : \E args \in ArgsOf(t) : Emplace(o, t, args, FALSE)
    \/ \E o \in Objs : Destroy(o)

\* construction, copy, move, assignment, emplace and destruction of two unions
\* whose payload constructors do not throw
SpecNoThrow == Init /\ [][NextNoThrow]_vars

\* the visitors of the last two MATCH expressions of main: a case for each
\* alternative; cases for index and value and a default
ExampleVisitors ==
    {[specific |-> Tags, whole |-> FALSE], [specific |-> {"index", "value"}, whole |-> TRUE]}

\* the Matcher of the README: case_name, case_index and otherwise
ExampleMatchers == {[cases |-> {"name", "index"}, otherwise |-> TRUE]}

\* what the blocks of these handlers do: read their argument or, given an
\* rvalue, move from it
ExampleEffects == {e \in Effects : e.kind \in {"read", "take"}}

NextAll ==
    \/ Next
    \/ \E o \in Existing, h \in ExampleVisitors, cat \in Categories :
          \E e \in ExampleEffects, r \in LeftVals(objs[o]) : Visit(o, h, cat, "nonvoid", e, r)
    \/ \E o \in Existing, m \in ExampleMatchers, cat \in Categories :
          Match(o, m, cat, "nonvoid")

\* two unions that are built, copied, moved, assigned, visited, matched and
\* destroyed
SpecAll == Init /\ [][NextAll]_vars

\* ================================================================= claims
\* memory of the destination / source of the last operation, after and before
Dst == objs[last.dst]
PreDst == last.pre[last.dst]
Src == objs[last.src]
PreSrc == last.pre[last.src]

\* C1 (single-liveness): every union in scope has a tag that names one
\* declared alternative, and get_ptr<t>() is non-null for exactly that tag.
C1_SingleLiveness ==
    \A o \in Existing :
       /\ get_tag(objs[o]) \in Tags
       /\ \A t \in Tags : (get_ptr(o, objs[o], t) # Null) <=> (t = get_tag(objs[o]))
       /\ Cardinality({t \in Tags : get_ptr(o, objs[o], t) # Null}) = 1

\* C1 witness: after create, emplace and a move assignment the target holds
\* value (an int, like index): only get_ptr<value>() is non-null.
C1_Witness ==
    /\ last.op = "move_assign" /\ last.dst # last.src
    /\ PreDst.m_tag = "name" /\ get_tag(Dst) = "value"
    /\ get_ptr(last.dst, Dst, "value") = Ref(last.dst, "value")
    /\ get_ptr(last.dst, Dst, "index") = Null

\* C2 (checked/unchecked agreement): in every reachable state, for every
\* declared tag t, holds<t>(), get_ptr<t>() != nullptr and get_tag() == t agree.
C2_Agreement ==
    \A o \in Existing : \A t \in Tags :
       /\ holds(objs[o], t) <=> (get_ptr(o, objs[o], t) # Null)
       /\ holds(objs[o], t) <=> (get_tag(objs[o]) = t)

\* C2 witness: the three agree (all true) on a union whose emplace threw, where
\* no payload is alive, and (all false) for the alternative it held before.
C2_Witness ==
    /\ last.op = "emplace" /\ last.threw
    /\ PreDst.m_tag = "index" /\ AliveSet(Dst) = {}
    /\ holds(Dst, "name") /\ get_ptr(last.dst, Dst, "name") # Null
    /\ ~holds(Dst, "index") /\ get_ptr(last.dst, Dst, "index") = Null

\* C3 (the claim as stated): after every public operation, also one in which a
\* payload constructor threw, the payload alive in the storage of a union in
\* scope is exactly the alternative its tag names.
C3_TagNamesLivePayload ==
    \A o \in Existing : AliveSet(objs[o]) = {objs[o].m_tag}

\* C4: create<t>(args) yields a union with tag t whose payload for t is what
\* direct construction from args produces; no other alternative is constructed.
C4_Create ==
    (last.op = "create" /\ ~last.threw) =>
       /\ Dst.life = "alive"
       /\ get_tag(Dst) = last.tag
       /\ Dst.storage[last.tag] = Live(Construct(last.tag, last.args))
       /\ AliveSet(Dst) = {last.tag}
       /\ last.log = <<Ev("construct", last.dst, last.tag)>>

\* C4 witness: create_point(1, 0) gave tag point with x = 1 and y = 0.
C4_Witness ==
    /\ last.op = "create" /\ ~last.threw
    /\ last.tag = "point" /\ last.args = <<1, 0>>
    /\ get_tag(Dst) = "point"
    /\ Dst.storage["point"].val = [x |-> 1, y |-> 0]

\* C5 (emplace replaces, not merges): for every prior tag p and target t, after
\* emplace<t>(args) returns the tag is t, the payload is what direct
\* construction from args produces, get_ptr<p>() is null when p # t, and the
\* returned reference designates the new payload.
C5_Emplace ==
    (last.op = "emplace" /\ ~last.threw) =>
       /\ get_tag(Dst) = last.tag
       /\ Dst.storage[last.tag] = Live(Construct(last.tag, last.args))
       /\ PreDst.m_tag # last.tag => get_ptr(last.dst, Dst, PreDst.m_tag) = Null
       /\ last.ret = get_ptr(last.dst, Dst, last.tag)
       /\ last.ret = Ref(last.dst, last.tag)

\* C5 witness: emplace_value(1) on a union holding index (same payload type).
C5_Witness ==
    /\ last.op = "emplace" /\ ~last.threw
    /\ PreDst.m_tag = "index" /\ PreDst.storage["index"].alive
    /\ last.tag = "value" /\ last.args = <<1>>
    /\ Dst.storage["value"].val = 1
    /\ get_ptr(last.dst, Dst, "index") = Null

\* C5 witness for t == p is part of the same run: emplace onto the same tag
\* replaces the payload.
C5_SameTagReached ==
    /\ last.op = "emplace" /\ ~last.threw
    /\ PreDst.m_tag = last.tag /\ PreDst.storage[last.tag].alive
    /\ PreDst.storage[last.tag].val # Dst.storage[last.tag].val

\* the last operation was an assignment between two distinct unions, from a
\* source whose payload is alive, and it returned
Assigned ==
    /\ last.op \in {"copy_assign", "move_assign"}
    /\ last.dst # last.src
    /\ ~last.threw
    /\ PreSrc.m_tag \in Tags
    /\ PreSrc.storage[PreSrc.m_tag].alive

\* C6: a = b between two distinct unions leaves a with b's tag and a payload
\* equal to b's, for every pair of prior tags; it is performed as a destroy of
\* a's current payload followed by a construction from b's payload.
C6_Assign ==
    Assigned =>
       LET q == PreSrc.m_tag
       IN  /\ get_tag(Dst) = q
           /\ Dst.storage[q] = Live(PreSrc.storage[q].val)
           /\ AliveSet(Dst) = {q}
           /\ Len(last.log) = 3
           /\ last.log[1] = Ev("destroy", last.dst, PreDst.m_tag)
           /\ last.log[2] = Ev(IF last.op = "copy_assign" THEN "read" ELSE "move_from",
                               last.src, q)
           /\ last.log[3] = Ev("construct", last.dst, q)

\* C6 witness: a name-tagged union was copy-assigned from a point-tagged one.
C6_Witness ==
    /\ Assigned /\ last.op = "copy_assign"
    /\ PreDst.m_tag = "name" /\ PreDst.storage["name"].alive
    /\ PreSrc.m_tag = "point"
    /\ Dst.storage["point"].val = PreSrc.storage["point"].val
    /\ ~Dst.storage["name"].alive

\* the last operation copied from a source whose payload is alive, and returned
Copied ==
    /\ last.op \in {"copy_construct", "copy_assign"}
    /\ ~last.threw
    /\ PreSrc.m_tag \in Tags
    /\ PreSrc.storage[PreSrc.m_tag].alive

\* C7 (copy fidelity): copy construction and copy assignment give the
\* destination the source's tag and a value-equal payload, and leave the
\* source's tag and payload unchanged.
C7_CopyFidelity ==
    Copied =>
       LET q == PreSrc.m_tag
       IN  /\ get_tag(Dst) = q
           /\ Dst.storage[q].alive
           /\ Dst.storage[q].val = PreSrc.storage[q].val
           /\ Src = PreSrc

\* C7 witness: a name-tagged union holding "hi" was copy-constructed.
C7_Witness ==
    /\ Copied /\ last.op = "copy_construct"
    /\ PreSrc.m_tag = "name" /\ PreSrc.storage["name"].val = "hi"
    /\ Dst.storage["name"].val = "hi"
    /\ Src.storage["name"].val = "hi"

\* the last operation moved from a distinct source whose payload is alive
Moved ==
    /\ last.op \in {"move_construct", "move_assign"}
    /\ last.dst # last.src
    /\ PreSrc.m_tag \in Tags
    /\ PreSrc.storage[PreSrc.m_tag].alive

\* C8 (move fidelity): move construction and move assignment give the
\* destination the source's tag and payload value; the source keeps its tag
\* and still has exactly one payload alive, in moved-from state.
C8_MoveFidelity ==
    Moved =>
       LET q == PreSrc.m_tag
       IN  /\ get_tag(Dst) = q
           /\ Dst.storage[q] = Live(PreSrc.storage[q].val)
           /\ get_tag(Src) = q
           /\ Src.life = PreSrc.life
           /\ AliveSet(Src) = {q}
           /\ Src.storage[q].moved

\* C8 witness: a name-tagged union holding "hi" was move-assigned from and is
\* left holding name with the empty string.
C8_Witness ==
    /\ Moved /\ last.op = "move_assign"
    /\ PreSrc.m_tag = "name" /\ PreSrc.storage["name"].val = "hi"
    /\ Dst.storage["name"].val = "hi"
    /\ get_tag(Src) = "name" /\ Src.storage["name"].val = ""

\* C9: when the construction of the new alternative throws during emplace or
\* during copy/move assignment, the union is left with no live payload: the
\* previous payload was destroyed first and is not restored.
C9_ThrowLeavesNoPayload ==
    (last.threw /\ last.op \in {"emplace", "copy_assign", "move_assign"}) =>
       /\ AliveSet(Dst) = {}
       /\ Len(last.log) >= 2
       /\ last.log[1] = Ev("destroy", last.dst, PreDst.m_tag)
       /\ last.log[Len(last.log)].ev = "throw"
       /\ \A i \in 1 .. Len(last.log) : last.log[i].ev # "construct"

\* C9 witness: emplace_name threw on a union that held a point.
C9_Witness ==
    /\ last.threw /\ last.op = "emplace" /\ last.tag = "name"
    /\ PreDst.m_tag = "point" /\ PreDst.storage["point"].alive
    /\ AliveSet(Dst) = {}

\* C9 witness for assignment: a copy assignment from a name-tagged source
\* threw on a union that held an index.
C9_AssignThrowReached ==
    /\ last.threw /\ last.op = "copy_assign"
    /\ PreDst.m_tag = "index" /\ PreDst.storage["index"].alive
    /\ AliveSet(Dst) = {}

\* C10 (dispatch priority): when the visitor is callable both with the tag
\* witness and payload of the active tag and with the whole union, visit
\* calls the tag-specific form and not the whole-value form.
C10_DispatchPriority ==
    (/\ last.op = "visit"
     /\ PreDst.m_tag \in last.visitor.specific
     /\ last.visitor.whole) =>
       /\ last.called.form = "specific"
       /\ last.called.tag = PreDst.m_tag
       /\ last.called.arg = Ref(last.dst, PreDst.m_tag)

\* C10 witness: a visitor with cases for index and value and a whole-value
\* form was applied to a union holding value.
C10_Witness ==
    /\ last.op = "visit"
    /\ PreDst.m_tag = "value"
    /\ last.visitor = [specific |-> {"index", "value"}, whole |-> TRUE]
    /\ last.called = [form |-> "specific", tag |-> "value",
                      arg |-> Ref(last.dst, "value"), cat |-> "rvalue"]

\* C11 (per-tag strategy resolution): a visitor that offers the tag-specific
\* form for a set S of tags and the whole-value form is called exactly once per
\* application: with the tag witness and the active payload when the active tag
\* is in S, with the entire union when it is not; the form chosen depends only
\* on what the visitor offers for the active tag.
C11_PerTagResolution ==
    (last.op = "visit" /\ last.visitor.whole) =>
       LET f == PreDst.m_tag
           S == last.visitor.specific
       IN  /\ f \in S => /\ last.called.form = "specific"
                         /\ last.called.tag = f
                         /\ last.called.arg = Ref(last.dst, f)
           /\ f \notin S => /\ last.called.form = "whole"
                            /\ last.called.arg = Whole(last.dst)
           /\ last.called.form \in {"specific", "whole"}
           /\ \A g \in Visitors :
                 ((f \in g.specific <=> f \in S) /\ g.whole) =>
                    VisitCase(last.dst, f, g, last.called.cat) = last.called

\* C11 witness: a visitor with a case for index only (and the whole-value form)
\* was applied to a union holding value, and was called with the whole union.
C11_Witness ==
    /\ last.op = "visit"
    /\ PreDst.m_tag = "value"
    /\ last.visitor = [specific |-> {"index"}, whole |-> TRUE]
    /\ last.called.form = "whole"
    /\ last.called.arg = Whole(last.dst)

\* the alternatives named by the CASE branches of the last MATCH
CaseTags == {last.branches[i].field : i \in {j \in DOMAIN last.branches : last.branches[j].kind = "CASE"}}

\* the last operation was a MATCH whose CASE branches name distinct
\* alternatives and that has an OTHERWISE branch
MatchedWithDefault ==
    /\ last.op = "MATCH"
    /\ \A t \in CaseTags : Cardinality(Candidates(last.branches, t)) = 1
    /\ Cardinality(Defaults(last.branches)) = 1

\* C12 (match exhaustiveness with default): MATCH with CASE branches for some
\* alternatives and an OTHERWISE branch runs the OTHERWISE branch exactly when
\* the active tag is not one of the cases, and otherwise the CASE naming the
\* active tag.
C12_MatchDefault ==
    MatchedWithDefault =>
       LET f == PreDst.m_tag
       IN  /\ last.branch \in DOMAIN last.branches
           /\ (last.branches[last.branch].kind = "OTHERWISE") <=> (f \notin CaseTags)
           /\ f \in CaseTags => last.branches[last.branch] \in
                                   {Case(f, b) : b \in {"format_index", "format_value"}}

\* C12 witness: MATCH with cases for index and value and OTHERWISE, on a union
\* holding name, returned the text of the OTHERWISE branch.
C12_Witness ==
    /\ MatchedWithDefault
    /\ CaseTags = {"index", "value"}
    /\ PreDst.m_tag = "name"
    /\ last.branch = 3
    /\ last.result = <<"Unsupported variant">>

\* C12, the other direction, is reached as well: the same MATCH on a union
\* holding value ran the CASE for value.
C12_CaseReached ==
    /\ MatchedWithDefault
    /\ CaseTags = {"index", "value"}
    /\ PreDst.m_tag = "value" /\ PreDst.storage["value"].alive
    /\ last.branch = 2
    /\ last.result = <<"Value: ", PreDst.storage["value"].val>>

\* the last operation was a MATCH with one CASE for each declared alternative,
\* on a union whose payload is alive
MatchedAllCases ==
    /\ last.op = "MATCH"
    /\ \A t \in Tags : Cardinality(Candidates(last.branches, t)) = 1
    /\ PreDst.storage[PreDst.m_tag].alive

\* C13: MATCH with a CASE for each declared alternative returns what the block
\* of the CASE naming the active tag returns for the active payload (for a
\* point, block point.x + point.y, the sum of the coordinates); no other block
\* runs.
C13_MatchResult ==
    MatchedAllCases =>
       LET f == PreDst.m_tag
           v == PreDst.storage[f].val
       IN  /\ last.branch \in Candidates(last.branches, f)
           /\ last.result = RunBody(last.branches[last.branch].body, v)
           /\ f \in {"index", "value"} => last.result = <<v>>
           /\ f = "name" => last.result = <<Len(v)>>
           /\ f = "point" => last.result = <<v.x + v.y>>

\* C13 witness: on a union holding the point (1, 1) the MATCH of main returned 2.
C13_Witness ==
    /\ MatchedAllCases
    /\ PreDst.m_tag = "point"
    /\ PreDst.storage["point"].val = [x |-> 1, y |-> 1]
    /\ last.branch = 4
    /\ last.result = <<2>>

\* the last operation was a dispatch (visit, MATCH or match) on a union with a
\* valid tag
Dispatched == last.op \in {"visit", "MATCH", "match"} /\ ~last.bad

\* the handler of the last dispatch offers, for the alternative f, a
\* tag-specific case or a default
Covers(f) ==
    IF last.op = "match"
    THEN f \in last.matcher.cases \/ last.matcher.otherwise
    ELSE f \in last.visitor.specific \/ last.visitor.whole

\* C14: a dispatch whose return type is not void only ever runs with a handler
\* that covers every declared alternative (a handler that leaves one uncovered
\* does not build), and it returns what the handler it called returns: there
\* is no run in which it returns without calling one.
C14_NonVoidExhaustive ==
    Dispatched /\ last.rt # "void" =>
       /\ \A f \in Tags : Covers(f)
       /\ last.called.form # "none"

\* C14 witness: a union holds point; visit<R> with a visitor that has cases for
\* name and index only cannot be applied to it for a non-void R, although the
\* same visitor can be applied for void, and a non-void visit with a default
\* added has been applied and called the default.
C14_Witness ==
    /\ Dispatched /\ last.op = "visit" /\ last.rt = "nonvoid"
    /\ last.visitor = [specific |-> {"name", "index"}, whole |-> TRUE]
    /\ last.called.form = "whole"
    /\ ~crashed /\ Dst.m_tag = "point"
    /\ ~ENABLED Visit(last.dst, [specific |-> {"name", "index"}, whole |-> FALSE],
                      "lvalue", "nonvoid", NoEffect, 0)
    /\ ENABLED Visit(last.dst, [specific |-> {"name", "index"}, whole |-> FALSE],
                     "lvalue", "void", NoEffect, 0)

\* C15: a void visit or MATCH whose handler offers neither a case for the
\* active tag nor a default calls nothing, and the union is left as it was.
C15_VoidNoOp ==
    /\ last.op \in {"visit", "MATCH"} /\ ~last.bad
    /\ last.rt = "void"
    /\ PreDst.m_tag \notin last.visitor.specific
    /\ ~last.visitor.whole
    => /\ last.called = NoCall
       /\ last.branch = 0 /\ last.result = <<>>
       /\ last.log = <<>>
       /\ objs = last.pre

\* C15 witness: MATCH(void, u, CASE name, CASE index) of main, applied to a
\* union that holds point, ran no block.
C15_Witness ==
    /\ last.op = "MATCH" /\ last.rt = "void"
    /\ last.visitor = [specific |-> {"name", "index"}, whole |-> FALSE]
    /\ PreDst.m_tag = "point" /\ PreDst.storage["point"].alive
    /\ last.called = NoCall
    /\ Dst = PreDst

\* the last operation was a MATCH in which two CASE branches name the tag the
\* union held
MatchedDuplicate ==
    /\ last.op = "MATCH" /\ ~last.bad
    /\ Cardinality(Candidates(last.branches, PreDst.m_tag)) >= 2

\* the first of the CASE branches of the last MATCH that name the tag f
FirstDeclared(f) ==
    CHOOSE i \in Candidates(last.branches, f) :
       \A j \in Candidates(last.branches, f) : i <= j

\* C16 as stated: when two CASE branches name the same tag, the first one in
\* declared order is invoked for that active tag and the later one is not.
C16_FirstDeclaredWins ==
    MatchedDuplicate => last.branch = FirstDeclared(PreDst.m_tag)

\* C16 as amended: when two CASE branches name the same tag, the call with that
\* tag is ambiguous and neither branch is invoked for it: the OTHERWISE branch
\* runs if there is one, and without one a void MATCH runs no branch.
C16_DuplicateCasesSkipped ==
    MatchedDuplicate =>
       /\ last.branch \notin Candidates(last.branches, PreDst.m_tag)
       /\ last.called.form # "specific"
       /\ Defaults(last.branches) # {} =>
             /\ last.branch \in Defaults(last.branches)
             /\ last.called.form = "whole"
       /\ Defaults(last.branches) = {} =>
             /\ last.rt = "void"
             /\ last.branch = 0
             /\ last.called = NoCall

\* C16 witness: MATCH with two CASE branches for index and OTHERWISE, on a
\* union holding index, ran the OTHERWISE branch.
C16_Witness ==
    /\ MatchedDuplicate
    /\ PreDst.m_tag = "index" /\ PreDst.storage["index"].alive
    /\ last.branch = 3
    /\ last.result = <<"otherwise">>

\* C16, without OTHERWISE, is reached as well: a void MATCH with two CASE
\* branches for index, on a union holding index, ran nothing.
C16_VoidReached ==
    /\ MatchedDuplicate
    /\ PreDst.m_tag = "index" /\ PreDst.storage["index"].alive
    /\ last.rt = "void"
    /\ last.branch = 0

\* index and value are both declared with the payload type int
SameType == {"index", "value"}

\* the other name with the same payload type
OtherName(t) == CHOOSE u \in SameType : u # t

\* C17: index and value, both of type int, are never confused: a union whose
\* tag is one of them does not hold the other and gives a null pointer for it,
\* holds<other>() and get_ptr<other>() answer so when called, and visit, MATCH
\* and match on it call the case of the active name, never the case of the
\* other name.
C17_SameTypeDistinctNames ==
    /\ \A o \in Existing : objs[o].m_tag \in SameType =>
          /\ ~holds(objs[o], OtherName(objs[o].m_tag))
          /\ get_ptr(o, objs[o], OtherName(objs[o].m_tag)) = Null
    /\ last.op \in {"create", "emplace"} /\ ~last.threw /\ last.tag \in SameType =>
          /\ Dst.m_tag = last.tag
          /\ AliveSet(Dst) = {last.tag}
    /\ last.op = "holds" /\ PreDst.m_tag \in SameType /\ last.tag = OtherName(PreDst.m_tag) =>
          last.result = <<FALSE>>
    /\ last.op = "get_ptr" /\ PreDst.m_tag \in SameType /\ last.tag = OtherName(PreDst.m_tag) =>
          last.ret = Null
    /\ Dispatched /\ PreDst.m_tag \in SameType =>
          /\ last.called.form \in {"specific", "case"} => last.called.tag = PreDst.m_tag
          /\ last.op = "MATCH" /\ last.branch # 0 =>
                last.branches[last.branch].field \in {PreDst.m_tag, NoTag}

\* C17 witness: the MATCH of main with a CASE for each alternative, on a union
\* holding value 1, ran the CASE for value although the CASE for index comes
\* first and takes the same type.
C17_Witness ==
    /\ MatchedAllCases
    /\ PreDst.m_tag = "value" /\ PreDst.storage["value"].val = 1
    /\ last.branches[1].field = "index"
    /\ last.branches[last.branch].field = "value"
    /\ last.result = <<1>>
    /\ ~holds(Dst, "index") /\ get_ptr(last.dst, Dst, "index") = Null

\* C18: the OTHERWISE branch of a MATCH is called with the whole union, with
\* the value category of the matched expression, not with the active payload.
C18_OtherwiseGetsUnion ==
    /\ last.op = "MATCH" /\ ~last.bad
    /\ last.branch \in Defaults(last.branches)
    => /\ last.called.form = "whole"
       /\ last.called.arg = Whole(last.dst)
       /\ last.called.arg # Ref(last.dst, PreDst.m_tag)
       /\ last.called.cat = last.cat

\* C18 witness: MATCH(std::string, std::move(u), CASE index, CASE value,
\* OTHERWISE) of main, on a union holding name: OTHERWISE got std::move(u).
C18_Witness ==
    /\ last.op = "MATCH" /\ last.cat = "rvalue"
    /\ PreDst.m_tag = "name"
    /\ last.branch = 3 /\ last.branches[3] = Otherwise("Unsupported variant")
    /\ last.called = [form |-> "whole", tag |-> NoTag, arg |-> Whole(last.dst), cat |-> "rvalue"]

\* C19: match<R>(matcher) calls matcher.case_<name>(payload) for the active
\* name when the matcher offers it, also when otherwise is offered too;
\* otherwise matcher.otherwise(union) when that is offered; one call per
\* application.
C19_MatchPriority ==
    last.op = "match" /\ ~last.bad =>
       LET f == PreDst.m_tag
           m == last.matcher
       IN  /\ f \in m.cases =>
                last.called = [form |-> "case", tag |-> f, arg |-> Ref(last.dst, f),
                               cat |-> last.cat]
           /\ f \notin m.cases /\ m.otherwise =>
                last.called = [form |-> "otherwise", tag |-> NoTag, arg |-> Whole(last.dst),
                               cat |-> last.cat]
           /\ f \in m.cases \/ m.otherwise => last.called.form \in {"case", "otherwise"}
           /\ Len(last.log) <= 1

\* C19 witness: the Matcher of the README (case_name, case_index, otherwise)
\* applied to a union holding name: case_name was called, not otherwise.
C19_Witness ==
    /\ last.op = "match"
    /\ last.matcher = [cases |-> {"name", "index"}, otherwise |-> TRUE]
    /\ PreDst.m_tag = "name" /\ PreDst.storage["name"].alive
    /\ last.called.form = "case" /\ last.called.tag = "name"

\* C19, the other branch, is reached as well: the same Matcher on a union
\* holding point called otherwise.
C19_OtherwiseReached ==
    /\ last.op = "match"
    /\ last.matcher = [cases |-> {"name", "index"}, otherwise |-> TRUE]
    /\ PreDst.m_tag = "point"
    /\ last.called.form = "otherwise"

\* C20: get_tag(), holds<t>() and get_ptr<t>(), for any t, leave every union
\* as it was and do nothing undefined; get_tag answers the tag, holds<t>
\* whether t is the tag, get_ptr<t> the address of the member for the active t
\* and null for any other.
C20_InspectionPure ==
    last.op \in {"get_tag", "holds", "get_ptr"} =>
       /\ objs = last.pre
       /\ ~last.undefined
       /\ last.op = "get_tag" => last.result = <<PreDst.m_tag>>
       /\ last.op = "holds" => last.result = <<last.tag = PreDst.m_tag>>
       /\ last.op = "get_ptr" =>
             last.ret = IF last.tag = PreDst.m_tag THEN Ref(last.dst, last.tag) ELSE Null

\* C20 witness: get_ptr<name>() on a union holding index returned null and the
\* union still holds its index.
C20_Witness ==
    /\ last.op = "get_ptr" /\ last.tag = "name"
    /\ PreDst.m_tag = "index" /\ PreDst.storage["index"].alive
    /\ last.ret = Null
    /\ Dst = PreDst
    /\ ~ub /\ ~crashed

\* the tag and the constructed members of every union after the first n
\* primitive steps of the last operation
RECURSIVE After(_)
After(n) ==
    IF n = 0
    THEN [o \in Objs |-> [tag |-> last.pre[o].m_tag, alive |-> AliveSet(last.pre[o])]]
    ELSE LET s == After(n - 1)
             e == last.log[n]
         IN  CASE e.ev = "construct" ->
                    [s EXCEPT ![e.obj] = [tag |-> e.field, alive |-> @.alive \cup {e.field}]]
               [] e.ev = "throw" -> [s EXCEPT ![e.obj].tag = e.field]
               [] e.ev = "destroy" -> [s EXCEPT ![e.obj].alive = @ \ {e.field}]
               [] OTHER -> s

\* the steps of the last operation
Steps == 1..Len(last.log)

\* C21: at every step of every operation, also between the destruction and
\* the construction inside emplace and assignment, at most one payload is
\* constructed in the storage of a union, and a payload is only ever
\* constructed in storage that holds none.
C21_AtMostOnePayload ==
    /\ \A n \in Steps \cup {0} : \A o \in Objs : Cardinality(After(n)[o].alive) <= 1
    /\ \A n \in Steps : last.log[n].ev = "construct" =>
          After(n - 1)[last.log[n].obj].alive = {}
    /\ \A o \in Objs : After(Len(last.log))[o].alive = AliveSet(objs[o])

\* C21 witness: emplace<name> on a union holding a live point destroyed the
\* point and then constructed the name.
C21_Witness ==
    /\ last.op = "emplace" /\ ~last.threw
    /\ PreDst.m_tag = "point" /\ PreDst.storage["point"].alive
    /\ last.log = <<Ev("destroy", last.dst, "point"), Ev("construct", last.dst, "name")>>
    /\ After(1)[last.dst].alive = {}
    /\ AliveSet(Dst) = {"name"}

\* C21, for assignment, is reached as well: a copy assignment destroyed the
\* target's payload before it read and copied the source's.
C21_AssignReached ==
    /\ last.op = "copy_assign" /\ ~last.threw /\ last.dst # last.src
    /\ Len(last.log) = 3
    /\ last.log[1] = Ev("destroy", last.dst, PreDst.m_tag)
    /\ last.log[3].ev = "construct"
    /\ PreDst.m_tag # PreSrc.m_tag

\* the steps that read, move from or destroy a storage member
Touches == {n \in Steps : last.log[n].ev \in {"read", "move_from", "destroy"}}

\* C22: copy, move, assignment, destruction, visit and match read, move from
\* and destroy only the storage member named by the tag the union has at that
\* step, and leave the members of all other alternatives as they were.
C22_OnlyActiveTouched ==
    /\ \A n \in Touches : last.log[n].field = After(n - 1)[last.log[n].obj].tag
    /\ \A o \in Objs : \A t \in Tags :
          t \notin {last.pre[o].m_tag, objs[o].m_tag} \/ objs[o].life = "absent" =>
             objs[o].storage[t] = IF objs[o].life = "absent" THEN Empty
                                  ELSE last.pre[o].storage[t]

\* C22 witness: a move assignment between unions with different tags destroyed
\* the target's active member, moved from the source's active member, and
\* nothing else.
C22_Witness ==
    /\ last.op = "move_assign" /\ last.dst # last.src
    /\ PreDst.m_tag # PreSrc.m_tag
    /\ PreDst.storage[PreDst.m_tag].alive /\ PreSrc.storage[PreSrc.m_tag].alive
    /\ last.log = <<Ev("destroy", last.dst, PreDst.m_tag),
                    Ev("move_from", last.src, PreSrc.m_tag),
                    Ev("construct", last.dst, PreSrc.m_tag)>>

\* C22, for visit, is reached as well: a visit read the active member only.
C22_VisitReached ==
    /\ last.op = "visit" /\ last.called.form = "specific"
    /\ PreDst.storage[PreDst.m_tag].alive
    /\ last.log = <<Ev("read", last.dst, PreDst.m_tag)>>

\* C24: self-assignment, a = a or a = std::move(a), destroys nothing,
\* constructs nothing and leaves the tag and the payload as they were.
C24_SelfAssignNoOp ==
    last.op \in {"copy_assign", "move_assign"} /\ last.dst = last.src =>
       /\ last.log = <<>>
       /\ objs = last.pre
       /\ ~last.threw /\ ~last.undefined

\* C24 witness: a = a on a union holding the name "hi" left it holding "hi".
C24_Witness ==
    /\ last.op = "copy_assign" /\ last.dst = last.src
    /\ PreDst.m_tag = "name" /\ PreDst.storage["name"] = Live("hi")
    /\ Dst = PreDst

\* C24, the move form, is reached as well.
C24_MoveReached ==
    /\ last.op = "move_assign" /\ last.dst = last.src
    /\ PreDst.m_tag = "name" /\ PreDst.storage["name"] = Live("hi")
    /\ Dst = PreDst

\* the alternative the last emplace or assignment was constructing
Constructing == IF last.op = "emplace" THEN last.tag ELSE PreSrc.m_tag

\* C25: when the payload constructor throws inside emplace<t> or inside an
\* assignment from a source with tag t, m_tag is already t: get_tag() is t,
\* holds<t>() is true and get_ptr<t>() is not null although no payload is
\* alive, and the destruction of such a union destroys the member t, which was
\* never constructed.
C25_ThrowLeavesNewTag ==
    /\ last.op \in {"emplace", "copy_assign", "move_assign"} /\ last.threw =>
          /\ get_tag(Dst) = Constructing
          /\ holds(Dst, Constructing)
          /\ get_ptr(last.dst, Dst, Constructing) = Ref(last.dst, Constructing)
          /\ AliveSet(Dst) = {}
          /\ Dst.life = "poisoned"
    /\ last.op = "destroy" /\ PreDst.life = "poisoned" =>
          /\ AliveSet(PreDst) = {}
          /\ last.log = <<Ev("destroy", last.dst, PreDst.m_tag)>>
          /\ last.undefined

\* C25 witness: a union whose emplace<name> threw was destroyed: its
\* destructor destroyed the name member, in which no string was alive.
C25_Witness ==
    /\ last.op = "destroy"
    /\ PreDst.life = "poisoned" /\ PreDst.m_tag = "name"
    /\ ~PreDst.storage["name"].alive
    /\ last.log = <<Ev("destroy", last.dst, "name")>>
    /\ ub

\* C25, the throw itself, is reached as well: emplace<name> on a union
\* holding an index threw and left the tag name without a payload.
C25_ThrowReached ==
    /\ last.op = "emplace" /\ last.threw /\ last.tag = "name"
    /\ PreDst.m_tag = "index" /\ PreDst.storage["index"].alive
    /\ Dst.m_tag = "name" /\ AliveSet(Dst) = {}

\* C25, for assignment, is reached as well.
C25_AssignThrowReached ==
    /\ last.op = "copy_assign" /\ last.threw
    /\ PreDst.m_tag = "point" /\ PreSrc.m_tag = "name"
    /\ Dst.m_tag = "name" /\ AliveSet(Dst) = {}

\* C27: the tag of every union in scope is one of the declared tags, and no
\* operation takes the default branch of a switch on m_tag.
C27_BadTagUnreachable ==
    /\ \A o \in Existing : objs[o].m_tag \in Tags
    /\ ~last.bad

\* C27 witness: also a union left without a payload by a throwing emplace has
\* a declared tag: a visit of it took the case of that tag, not the default.
C27_Witness ==
    /\ last.op = "visit" /\ ~last.bad
    /\ PreDst.life = "poisoned" /\ AliveSet(PreDst) = {}
    /\ PreDst.m_tag = "name"
    /\ last.called.form = "specific" /\ last.called.tag = "name"

\* C27, for the special member functions, is reached as well: a moved-from
\* source was copied and then destroyed through the case of its tag.
C27_MovedFromReached ==
    /\ last.op = "destroy" /\ ~last.bad
    /\ PreDst.m_tag = "name" /\ PreDst.storage["name"].alive /\ PreDst.storage["name"].moved
    /\ last.log = <<Ev("destroy", last.dst, "name")>>

\* C26: when no payload constructor throws, every destroy is applied to the
\* member that is alive at that step and that the tag names (no double
\* destroy, no destroy under a wrong tag), every payload is constructed in
\* storage that holds none and a union that goes out of scope holds none (no
\* leak), every union in scope holds exactly the payload its tag names, and
\* nothing undefined happens.
C26_ConstructedDestroyedOnce ==
    /\ \A n \in Steps : last.log[n].ev = "destroy" =>
          /\ last.log[n].field \in After(n - 1)[last.log[n].obj].alive
          /\ last.log[n].field = After(n - 1)[last.log[n].obj].tag
    /\ \A n \in Steps : last.log[n].ev = "construct" =>
          After(n - 1)[last.log[n].obj].alive = {}
    /\ \A o \in Objs : After(Len(last.log))[o].alive = AliveSet(objs[o])
    /\ \A o \in Objs : AliveSet(objs[o]) = IF Exists(o) THEN {objs[o].m_tag} ELSE {}
    /\ ~ub /\ ~crashed

\* C26 witness: a union that was move-assigned a name over a point, then moved
\* from, went out of scope: its destructor destroyed the one live name.
C26_Witness ==
    /\ last.op = "destroy"
    /\ PreDst.m_tag = "name" /\ PreDst.storage["name"].moved
    /\ AliveSet(PreDst) = {"name"}
    /\ last.log = <<Ev("destroy", last.dst, "name")>>
    /\ After(1)[last.dst].alive = {}
    /\ ~Exists(last.dst)

\* C26, for assignment, is reached as well: the old payload was destroyed
\* once, then the new one constructed.
C26_AssignReached ==
    /\ last.op = "move_assign" /\ last.dst # last.src
    /\ PreDst.m_tag = "name" /\ PreSrc.m_tag = "point"
    /\ last.log[1] = Ev("destroy", last.dst, "name")
    /\ AliveSet(Dst) = {"point"}

\* the last operation was a visit or a MATCH of an rvalue union that called a
\* handler
VisitedRvalue ==
    /\ last.op \in {"visit", "MATCH"} /\ ~last.bad
    /\ last.cat = "rvalue"
    /\ last.called.form # "none"

\* C23: visit or MATCH on an rvalue union passes the active payload to the
\* tag-specific handler, or the whole union to the fallback, as an rvalue; the
\* handler may move the payload out, visit itself destroys and re-tags
\* nothing: afterwards the union has the same tag and its payload is still
\* alive (moved-from), and its destructor destroys it under that tag.
C23_RvalueVisit ==
    /\ VisitedRvalue =>
          /\ last.called.cat = "rvalue"
          /\ last.called.arg = IF last.called.form = "specific"
                               THEN Ref(last.dst, PreDst.m_tag) ELSE Whole(last.dst)
          /\ Dst.m_tag = PreDst.m_tag
          /\ AliveSet(Dst) = AliveSet(PreDst)
          /\ \A n \in Steps : last.log[n].ev \notin {"destroy", "construct"}
          /\ last.effect.kind = "take" /\ PreDst.storage[PreDst.m_tag].alive =>
                /\ Dst.storage[Dst.m_tag].alive
                /\ Dst.storage[Dst.m_tag].moved
                /\ Dst.storage[Dst.m_tag].val \in
                      MovedFrom(Dst.m_tag, PreDst.storage[Dst.m_tag].val)
    /\ last.op = "destroy" /\ PreDst.storage[PreDst.m_tag].alive
                           /\ PreDst.storage[PreDst.m_tag].moved =>
          /\ last.log = <<Ev("destroy", last.dst, PreDst.m_tag)>>
          /\ ~last.undefined

\* C23 witness: std::move(u).visit on a union holding the name "hi", with a
\* handler for name that moves the string out, left the union holding an
\* empty, moved-from name.
C23_Witness ==
    /\ VisitedRvalue /\ last.op = "visit"
    /\ last.effect.kind = "take"
    /\ last.called = [form |-> "specific", tag |-> "name", arg |-> Ref(last.dst, "name"),
                      cat |-> "rvalue"]
    /\ PreDst.storage["name"] = Live("hi")
    /\ Dst.m_tag = "name"
    /\ Dst.storage["name"] = [alive |-> TRUE, val |-> "", moved |-> TRUE]

\* C23, the destruction, is reached as well: the moved-from name was destroyed
\* under the tag name.
C23_DestroyReached ==
    /\ last.op = "destroy"
    /\ PreDst.m_tag = "name"
    /\ PreDst.storage["name"] = [alive |-> TRUE, val |-> "", moved |-> TRUE]
    /\ last.log = <<Ev("destroy", last.dst, "name")>>
    /\ ~ub

\* C23, for MATCH, is reached as well: MATCH(std::string, std::move(u), ...)
\* of main called the CASE for value with an rvalue.
C23_MatchReached ==
    /\ VisitedRvalue /\ last.op = "MATCH"
    /\ last.called = [form |-> "specific", tag |-> "value", arg |-> Ref(last.dst, "value"),
                      cat |-> "rvalue"]

\* the last operation was a visit of an lvalue whose whole-value handler
\* called emplace on the union it was given
Retagged == last.op = "visit" /\ last.effect.kind = "retag" /\ ~last.bad

\* C28: when the whole-value handler called by visit on a mutable lvalue
\* re-tags the union with emplace<t>, the union has tag t and exactly one live
\* payload when visit returns, and visit does not read, move from or destroy
\* the member that was active before: the steps of the visit are those of the
\* emplace.
C28_HandlerRetags ==
    Retagged =>
       /\ last.cat = "lvalue"
       /\ last.called = [form |-> "whole", tag |-> NoTag, arg |-> Whole(last.dst),
                         cat |-> "lvalue"]
       /\ Dst.m_tag = last.effect.tag
       /\ AliveSet(Dst) = {last.effect.tag}
       /\ last.log = <<Ev("destroy", last.dst, PreDst.m_tag),
                       Ev("construct", last.dst, last.effect.tag)>>
       /\ PreDst.storage[PreDst.m_tag].alive => ~last.undefined

\* C28 witness: a visit of a union holding a live point, with a handler that
\* has no case for point and whose default calls emplace<name>, returned with
\* the union holding a name.
C28_Witness ==
    /\ Retagged
    /\ last.effect.tag = "name"
    /\ PreDst.m_tag = "point" /\ PreDst.storage["point"].alive
    /\ Dst.m_tag = "name" /\ AliveSet(Dst) = {"name"}
    /\ Len(last.log) = 2
    /\ ~ub

====
